---- MODULE Spec2Model ----
(***************************************************************************)
(* FlareDNS: the update loop of flaredns.py, examples/CopyDNS.py and      *)
(* update-dyndns.py, and the IPv6 address arithmetic of flaredns.py.       *)
(*                                                                         *)
(* The program is one sequential process.  Its position is pc; it is cut   *)
(* at the blocking calls (address resolution, record get, record put,      *)
(* sleep), where the remote record can change under it.  The Record Store  *)
(* (Cloudflare), the Address Source (ipify / a nameserver) and the other   *)
(* writers of the record are the environment.                              *)
(***************************************************************************)
EXTENDS Integers, Sequences, FiniteSets, TLC

VARIABLES
    cfg,        \* the parsed arguments (args)
    pc,         \* position of the process in __main__
    exit_code,  \* process exit status, -1 while running
    store,      \* the provider's records of hostname, by type
    zone_id,    \* zone id resolved at startup, "" before
    current_ip, \* the locals current_ipv4 / current_ipv6, by family
    record,     \* the locals a_record / aaaa_record as fetched, by family
    cyc,        \* what the running pass did so far, by family
    prev,       \* what the pass before left for this one, by family
    passes,     \* passes started (saturates at MaxPasses)
    sleeps,     \* time.sleep calls made (saturates below MaxPasses)
    store_calls,\* Record Store requests issued before the loop
    ext_writes, \* writes of other actors so far (at most MaxExtWrites)
    m_net, m_host, m_len, m_res, m_pc   \* the arithmetic under test

vars == <<cfg, pc, exit_code, store, zone_id, current_ip, record, cyc, prev,
          passes, sleeps, store_calls, ext_writes, m_net, m_host, m_len, m_res, m_pc>>

loopvars == <<cfg, pc, exit_code, store, zone_id, current_ip, record, cyc,
              prev, passes, sleeps, store_calls, ext_writes>>

mvars == <<m_net, m_host, m_len, m_res, m_pc>>

----------------------------------------------------------------------------
(* Bounds of the model *)

\* passes are counted up to this number, sleeps up to one less
MaxPasses == 2

\* writes of other actors to the provider's records during a run
MaxExtWrites == 1

\* how many of the addresses of AddrList the arithmetic is tried on
NumAddrs == 4

----------------------------------------------------------------------------
(* Python values *)

None == [type |-> "NoneType"]

Str(s) == [type |-> "str", val |-> s]

IPv6Address(bytes) == [type |-> "IPv6Address", packed |-> bytes]

IPv4Address(bytes) == [type |-> "IPv4Address", packed |-> bytes]

\* the outcome of a call: a returned value or a raised exception
Return(v) == [raised |-> FALSE, val |-> v]

Raise(kind) == [raised |-> TRUE, exc |-> kind]

Families == {"A", "AAAA"}

----------------------------------------------------------------------------
(* Address arithmetic, flaredns.py lines 15-41 *)

\* bits of an IPv6 address
WIDTH == 128

\* A Python int below 2^128 is kept as its binary expansion, most
\* significant bit first: TLC's integers have 32 bits.
ByteBit(b, k) == (b \div (2 ^ (8 - k))) % 2

\* int.from_bytes(packed, byteorder="big")
int_from_bytes(packed) ==
    LET pad == WIDTH - 8 * Len(packed)
    IN  [i \in 1..WIDTH |->
            IF i <= pad THEN 0
            ELSE ByteBit(packed[((i - pad - 1) \div 8) + 1],
                         ((i - pad - 1) % 8) + 1)]

\* n.to_bytes(16, byteorder="big")
int_to_bytes(n) ==
    [k \in 1..(WIDTH \div 8) |->
        n[8*k - 7] * 128 + n[8*k - 6] * 64 + n[8*k - 5] * 32 + n[8*k - 4] * 16
      + n[8*k - 3] * 8 + n[8*k - 2] * 4 + n[8*k - 1] * 2 + n[8*k]]

\* x & y, x | y, x ^ y, x >> k on Python ints
IntAnd(x, y) == [i \in 1..WIDTH |-> x[i] * y[i]]

IntOr(x, y) == [i \in 1..WIDTH |-> IF x[i] + y[i] > 0 THEN 1 ELSE 0]

IntXor(x, y) == [i \in 1..WIDTH |-> (x[i] + y[i]) % 2]

IntShiftRight(x, k) == [i \in 1..WIDTH |-> IF i <= k THEN 0 ELSE x[i - k]]

\* ipaddress.IPv6Address._ALL_ONES
ALL_ONES == [i \in 1..WIDTH |-> 1]

\* addr.packed: only an address object has it, of either family
HasPacked(v) == v.type \in {"IPv6Address", "IPv4Address"}

bitwise_and_as_xor(addr1, addr2) ==
    IF ~HasPacked(addr1) \/ ~HasPacked(addr2) THEN Raise("AttributeError")
    ELSE Return(IPv6Address(int_to_bytes(
             IntXor(int_from_bytes(addr1.packed), int_from_bytes(addr2.packed)))))

bitwise_and_ipv6(addr1, addr2) ==
    IF ~HasPacked(addr1) \/ ~HasPacked(addr2) THEN Raise("AttributeError")
    ELSE Return(IPv6Address(int_to_bytes(
             IntAnd(int_from_bytes(addr1.packed), int_from_bytes(addr2.packed)))))

bitwise_or_ipv6(addr1, addr2) ==
    IF ~HasPacked(addr1) \/ ~HasPacked(addr2) THEN Raise("AttributeError")
    ELSE Return(IPv6Address(int_to_bytes(
             IntOr(int_from_bytes(addr1.packed), int_from_bytes(addr2.packed)))))

bitwise_xor_as_or(addr1, addr2) == bitwise_or_ipv6(addr1, addr2)

bitwise_xor_ipv6(addr1, addr2) ==
    IF ~HasPacked(addr1) \/ ~HasPacked(addr2) THEN Raise("AttributeError")
    ELSE Return(IPv6Address(int_to_bytes(
             IntXor(int_from_bytes(addr1.packed), int_from_bytes(addr2.packed)))))

\* bytes(0b11111111 - b for b in addr.packed); IPv6Address takes 16 bytes only
bitwise_not_ipv6(addr) ==
    IF ~HasPacked(addr) THEN Raise("AttributeError")
    ELSE IF Len(addr.packed) # WIDTH \div 8 THEN Raise("AddressValueError")
    ELSE Return(IPv6Address([k \in 1..Len(addr.packed) |-> 255 - addr.packed[k]]))

\* int(s) of the decimal strings the model uses; -1 for any other string
ParseDecimal(s) ==
    CASE s = "0" -> 0 [] s = "1" -> 1 [] s = "63" -> 63 [] s = "64" -> 64
      [] s = "65" -> 65 [] s = "127" -> 127 [] s = "128" -> 128
      [] s = "129" -> 129 [] OTHER -> -1

\* the number f"::/{netmask_length}" names, of an int or a str argument
PrefixOf(netmask_length) ==
    IF netmask_length.type = "int" THEN netmask_length.val
    ELSE ParseDecimal(netmask_length.val)

\* ipaddress.IPv6Network(f"::/{netmask_length}").netmask
netmask(p) == IPv6Address(int_to_bytes(IntXor(ALL_ONES, IntShiftRight(ALL_ONES, p))))

hostmask_as_netmask(p) == netmask(p)

\* ipaddress.IPv6Network(f"::/{netmask_length}").hostmask
hostmask(p) ==
    IPv6Address(int_to_bytes(IntXor(int_from_bytes(netmask(p).packed), ALL_ONES)))

replace_ipv6_host_part(net_addr, host_addr, netmask_length) ==
    LET p == PrefixOf(netmask_length)
    IN  IF p < 0 \/ p > WIDTH THEN Raise("NetmaskValueError")
        ELSE LET net_part == bitwise_and_ipv6(net_addr, netmask(p))
             IN  IF net_part.raised THEN net_part
                 ELSE LET host_part == bitwise_and_ipv6(host_addr, hostmask(p))
                      IN  IF host_part.raised THEN host_part
                          ELSE bitwise_or_ipv6(net_part.val, host_part.val)

\* the addresses the model knows, as text and as packed bytes
AddrList ==
    << [text |-> "2001:db8::1",
        packed |-> <<32, 1, 13, 184, 0, 0, 0, 0, 0, 0, 0, 0, 0, 0, 0, 1>>],
       [text |-> "::dead:cafe",
        packed |-> <<0, 0, 0, 0, 0, 0, 0, 0, 0, 0, 0, 0, 222, 173, 202, 254>>],
       [text |-> "2001:db8:1:2:a5a5:5a5a:1234:5678",
        packed |-> <<32, 1, 13, 184, 0, 1, 0, 2, 165, 165, 90, 90, 18, 52, 86, 120>>],
       [text |-> "ffff:ffff:ffff:ffff:ffff:ffff:ffff:ffff",
        packed |-> <<255, 255, 255, 255, 255, 255, 255, 255,
                     255, 255, 255, 255, 255, 255, 255, 255>>],
       [text |-> "2001:db8::dead:cafe",
        packed |-> <<32, 1, 13, 184, 0, 0, 0, 0, 0, 0, 0, 0, 222, 173, 202, 254>>],
       [text |-> "::",
        packed |-> <<0, 0, 0, 0, 0, 0, 0, 0, 0, 0, 0, 0, 0, 0, 0, 0>>] >>

\* ipaddress.IPv6Address(text)
ParseIPv6(s) ==
    IF \E i \in 1..Len(AddrList) : AddrList[i].text = s
    THEN Return(IPv6Address(
             AddrList[CHOOSE i \in 1..Len(AddrList) : AddrList[i].text = s].packed))
    ELSE Raise("AddressValueError")


----------------------------------------------------------------------------
(* Configuration and environment of the update loop *)

V4Addrs == {"203.0.113.5", "203.0.113.9"}

V6Addrs == {"2001:db8::1", "2001:db8::dead:cafe"}

AddrsOf(f) == IF f = "A" THEN V4Addrs ELSE V6Addrs

\* an address only another writer of the record uses
ForeignAddr(f) == IF f = "A" THEN "198.51.100.7" ELSE "2001:db8::7"

\* --ipv6-host as given on the command line, cut into tokens at "/":
\* well-formed, without slash, without host address, without prefix length
Ipv6HostArgs ==
    { <<"::dead:cafe", "/", "64">>, <<"::dead:cafe">>, <<"/", "64">>,
      <<"::dead:cafe", "/">> }

ArgStr(tokens) == [type |-> "str", tokens |-> tokens]

\* --interval: type=int, so any integer
Intervals == {-1, 0, 60}

\* (--ipv6-host is only read in the IPv6 cycle: it is left out without --ipv6)
Configs ==
    {c \in [variant : {"flaredns"}, ipv4 : BOOLEAN, ipv6 : BOOLEAN,
            ipv6_host : {None} \cup {ArgStr(t) : t \in Ipv6HostArgs},
            interval : Intervals] :
        c.ipv6_host # None => c.ipv6}
    \cup
    [variant : {"CopyDNS"}, ipv4 : BOOLEAN, ipv6 : BOOLEAN,
     ipv6_host : {None}, interval : Intervals]

\* a DNS record as the provider returns it
Rec(f, content) == [id |-> "id-" \o f, type |-> f, content |-> content, ttl |-> 1]

\* the provider's answer to get(name=hostname, type=f): a list of records
Stores ==
    {st \in [Families -> {<<>>} \cup {<<Rec(f, a)>> : f \in Families,
                                                    a \in V4Addrs \cup V6Addrs}] :
        \A f \in Families :
            st[f] # <<>> => st[f][1].type = f /\ st[f][1].content \in AddrsOf(f)}

\* a response body that ends in a newline
WithNewline(f) == (IF f = "A" THEN "203.0.113.5" ELSE "2001:db8::1") \o "\n"

\* what the address echo service does on requests.get(url, timeout=5): the
\* response body is an address, with or without a newline after it
HttpOutcomes(f) ==
    {[kind |-> "response", text |-> a] : a \in AddrsOf(f) \cup {WithNewline(f)}}
    \cup {[kind |-> "ConnectionError"], [kind |-> "ReadTimeout"]}

\* what resolver.resolve(query, qtype) does
DnsOutcomes(f) ==
    {[kind |-> "answer", rrset |-> <<a>>] : a \in AddrsOf(f)}
    \cup {[kind |-> "answer", rrset |-> <<>>]}
    \cup {[kind |-> "NXDOMAIN"], [kind |-> "NoAnswer"], [kind |-> "LifetimeTimeout"]}

SourceOutcomes(variant, f) ==
    IF variant = "flaredns" THEN HttpOutcomes(f) ELSE DnsOutcomes(f)

\* the classes the model raises; all derive from Exception
ExceptionClasses ==
    {"Exception", "AttributeError", "IndexError", "TypeError", "ValueError",
     "AddressValueError", "NetmaskValueError", "ConnectionError", "ReadTimeout",
     "NXDOMAIN", "NoAnswer", "LifetimeTimeout", "CloudFlareAPIError"}

----------------------------------------------------------------------------
(* Address Source *)

\* flaredns.py get_current_ipv4 / get_current_ipv6
flaredns_get_current_ip(env) ==
    CASE env.kind = "response" -> Return(Str(env.text))
      [] env.kind = "ConnectionError" -> Return(None)
      [] OTHER -> Raise(env.kind)

\* CopyDNS.py dns_query_specific_nameserver
dns_query_specific_nameserver(env) ==
    IF env.kind # "answer" THEN Raise(env.kind)
    ELSE IF Len(env.rrset) = 0 THEN Return(None)
    ELSE Return(Str(env.rrset[1]))

\* CopyDNS.py get_current_ipv4 / get_current_ipv6
CopyDNS_get_current_ip(env) ==
    LET r == dns_query_specific_nameserver(env)
    IN  IF r.raised /\ r.exc \in {"NXDOMAIN", "NoAnswer"} THEN Return(None)
        ELSE r

get_current_ipv4(variant, env) ==
    IF variant = "flaredns" THEN flaredns_get_current_ip(env)
    ELSE CopyDNS_get_current_ip(env)

get_current_ipv6(variant, env) ==
    IF variant = "flaredns" THEN flaredns_get_current_ip(env)
    ELSE CopyDNS_get_current_ip(env)

----------------------------------------------------------------------------
(* The IPv6 host part replacement of the update loop, flaredns.py 164-171 *)

RECURSIVE Join(_)
Join(tokens) == IF tokens = <<>> THEN "" ELSE Head(tokens) \o Join(Tail(tokens))

\* str.partition("/")
partition(arg) ==
    LET t == arg.tokens
        at == {i \in 1..Len(t) : t[i] = "/"}
    IN  IF at = {} THEN <<Str(Join(t)), Str(""), Str("")>>
        ELSE LET i == CHOOSE k \in at : \A j \in at : k <= j
             IN  <<Str(Join(SubSeq(t, 1, i - 1))), Str("/"),
                   Str(Join(SubSeq(t, i + 1, Len(t))))>>

ReplaceHostPart_skipped(ipv6_host, current_ipv6) == Return(current_ipv6)

\* lines 165-170: the value assigned to current_ipv6, or the exception raised
ReplaceHostPart(ipv6_host, current_ipv6) ==
    LET parts == partition(ipv6_host)
        host_addr_str == parts[1]
        net_prefix_length_str == parts[3]
    IN  IF net_prefix_length_str.val = "" \/ host_addr_str.val = ""
        THEN Raise("Exception")
        ELSE LET host_addr == ParseIPv6(host_addr_str.val)
             IN  IF host_addr.raised THEN host_addr
                 ELSE replace_ipv6_host_part(current_ipv6, host_addr.val,
                                             net_prefix_length_str)


----------------------------------------------------------------------------
(* The update loop, __main__ of flaredns.py (124-181) and CopyDNS.py (126-174) *)

Unbound == [type |-> "unbound"]

\* what a pass has done for one family
NewCycle(enabled) ==
    [src     |-> "pending",   \* the Address Source's answer: "None", "raised" or the text
     outcome |-> IF enabled THEN "pending" ELSE "skipped",
     gets    |-> 0,           \* record gets issued
     puts    |-> 0,           \* record puts issued
     got     |-> <<>>,        \* the record list the get returned
     put     |-> <<>>,        \* the put issued: id, body, acknowledged, and
                              \* the stored record as the put found it
     ext     |-> FALSE]       \* somebody else wrote the record during the pass

\* What two consecutive passes have in common is judged on this summary of
\* the first: it counts (valid) when the Address Source returned a value,
\* nobody else wrote the record and the put, if one was issued, succeeded.
NoCarry == [valid |-> FALSE, src |-> "", compared |-> FALSE, puts |-> 0]

Carry(c) ==
    IF c.src \in {"pending", "raised"} \/ c.ext
       \/ (c.put # <<>> /\ ~c.put[1].ok)
    THEN NoCarry
    ELSE [valid |-> TRUE, src |-> c.src, compared |-> c.got # <<>>,
          puts |-> c.puts]

Inc(n) == IF n < MaxPasses THEN n + 1 ELSE n

no_family_selected_or(c) == ~c.ipv4 \/ ~c.ipv6

\* line 124: not args.ipv4 and not args.ipv6
no_family_selected(c) == ~c.ipv4 /\ ~c.ipv6

run_once_below_zero(interval) == interval < 0

\* line 177: args.interval == 0
run_once(interval) == interval = 0

caught_connection_errors_only(kind) == kind = "ConnectionError"

\* lines 156, 174: except Exception
caught_by_family_handler(kind) == kind \in ExceptionClasses

is_not_None_dropped(v) == TRUE

\* lines 154, 172: current_ip is not None
is_not_None(v) == v # None

need_to_update_always(rec, current) == TRUE

\* lines 62, 77: record["content"] != current_ip
need_to_update(rec, current) == rec.content # current

put_body_unchanged(rec, current) == rec

put_body_fresh(rec, current) ==
    [id |-> rec.id, type |-> rec.type, content |-> current, ttl |-> 300]

\* lines 67, 82: record["content"] = current_ip; the dict is the body of the put
put_body(rec, current) == [rec EXCEPT !.content = current]

put_target_of_A(rec) == "id-A"

record_type_always_A(f) == "A"

\* lines 59, 74: params={"name": hostname, "type": "A"} / "type": "AAAA"
record_type(f) == f

put_without_get == "put"

\* lines 59, 74: the first request of check_and_perform_ipv4_update /
\* _ipv6_update is the get of the record
first_request == "get"

\* lines 68, 83: the record id the put is addressed to
put_target(rec) == rec.id

\* the provider overwrites the record of that id with the body
StorePut(st, id, body) ==
    [f \in Families |->
        IF st[f] # <<>> /\ st[f][1].id = id
        THEN <<[id |-> id, type |-> body.type, content |-> body.content.val,
                ttl |-> body.ttl]>>
        ELSE st[f]]

\* a record of the provider as the Python dict the client hands out
AsDict(r) == [r EXCEPT !.content = Str(r.content)]

Step(f, name) == (IF f = "A" THEN "v4_" ELSE "v6_") \o name

\* The first blocking call of a family's cycle: the address resolution, in
\* update-dyndns.py (lines 12, 31) the get of the record.
EntryStep(f) == Step(f, IF cfg.variant = "update-dyndns" THEN "get" ELSE "resolve")

FirstStep == EntryStep(IF cfg.ipv4 THEN "A" ELSE "AAAA")

\* Where the process blocks next once family f's try statement is done: the
\* other family's resolution, or (lines 177-181) the exit or the sleep.
Leave(f) ==
    IF f = "A" /\ cfg.ipv6 THEN pc' = EntryStep("AAAA") /\ exit_code' = exit_code
    ELSE IF run_once(cfg.interval) THEN pc' = "exited" /\ exit_code' = 0
    ELSE pc' = "sleep" /\ exit_code' = exit_code

\* the family's try block is left normally
EndCycle(f, c, out) ==
    /\ cyc' = [cyc EXCEPT ![f] = [c EXCEPT !.outcome = out]]
    /\ prev' = [prev EXCEPT ![f] = NoCarry]
    /\ Leave(f)

\* the loop of update-dyndns.py (lines 78-86) has no try statement
caught_in_loop(kind) ==
    IF cfg.variant = "update-dyndns" THEN FALSE ELSE caught_by_family_handler(kind)

\* an exception leaves the family's try block, or its function call
Raised(f, c, kind) ==
    IF caught_in_loop(kind) THEN EndCycle(f, c, "error")
    ELSE /\ cyc' = [cyc EXCEPT ![f] = [c EXCEPT !.outcome = "escaped"]]
         /\ prev' = [prev EXCEPT ![f] = NoCarry]
         /\ pc' = "crashed"
         /\ exit_code' = 1

\* the family's cycle goes on to its next blocking call
Continue(f, c, name) ==
    /\ cyc' = [cyc EXCEPT ![f] = c]
    /\ prev' = prev
    /\ pc' = Step(f, name)
    /\ exit_code' = exit_code

\* line 148: an iteration of while True begins
BeginPass ==
    /\ passes' = Inc(passes)
    /\ prev' = [f \in Families |-> Carry(cyc[f])]
    /\ cyc' = [f \in Families |->
                 NewCycle(IF f = "A" THEN cfg.ipv4 ELSE cfg.ipv6)]
    /\ pc' = FirstStep

Init ==
    /\ cfg \in Configs
    /\ store \in Stores
    /\ pc = "args"
    /\ exit_code = -1
    /\ zone_id = ""
    /\ current_ip = [f \in Families |-> Unbound]
    /\ record = [f \in Families |-> <<>>]
    /\ cyc = [f \in Families |-> NewCycle(FALSE)]
    /\ prev = [f \in Families |-> NoCarry]
    /\ passes = 0 /\ sleeps = 0 /\ store_calls = 0 /\ ext_writes = 0
    /\ m_net = <<>> /\ m_host = <<>> /\ m_len = 0 /\ m_res = None /\ m_pc = "off"

\* lines 124-126
ArgsCheck ==
    /\ pc = "args"
    /\ IF no_family_selected(cfg)
       THEN pc' = "exited" /\ exit_code' = 1
       ELSE pc' = "zones" /\ exit_code' = exit_code
    /\ UNCHANGED <<cfg, store, zone_id, current_ip, record, cyc, prev, passes,
                   sleeps, store_calls>>
    /\ UNCHANGED <<ext_writes, mvars>>

\* lines 142-148: cf.zones.get raises, finds no zone, or finds the zone and
\* the loop is entered
ZonesGet ==
    /\ pc = "zones"
    /\ store_calls' = Inc(store_calls)
    /\ \E o \in {"found", "none", "error"} :
         CASE o = "error" -> /\ pc' = "crashed" /\ exit_code' = 1
                             /\ UNCHANGED <<zone_id, cyc, prev, passes>>
           [] o = "none"  -> /\ pc' = "exited" /\ exit_code' = 2
                             /\ UNCHANGED <<zone_id, cyc, prev, passes>>
           [] OTHER       -> /\ zone_id' = "zone-1"
                             /\ exit_code' = exit_code
                             /\ BeginPass
    /\ UNCHANGED <<cfg, store, current_ip, record, sleeps>>
    /\ UNCHANGED <<ext_writes, mvars>>

\* lines 152-154 and 161-172: resolve, replace the host part, test for None
Resolve(f) ==
    /\ pc = Step(f, "resolve")
    /\ \E env \in SourceOutcomes(cfg.variant, f) :
         LET r == IF f = "A" THEN get_current_ipv4(cfg.variant, env)
                  ELSE get_current_ipv6(cfg.variant, env)
         IN  IF r.raised
             THEN /\ Raised(f, [cyc[f] EXCEPT !.src = "raised"], r.exc)
                  /\ current_ip' = current_ip
             ELSE LET c == [cyc[f] EXCEPT
                              !.src = IF r.val = None THEN "None" ELSE r.val.val]
                      t == IF f = "AAAA" /\ cfg.ipv6_host # None
                           THEN ReplaceHostPart(cfg.ipv6_host, r.val)
                           ELSE r
                  IN  IF t.raised
                      THEN /\ Raised(f, c, t.exc)
                           /\ current_ip' = [current_ip EXCEPT ![f] = r.val]
                      ELSE /\ current_ip' = [current_ip EXCEPT ![f] = t.val]
                           /\ IF is_not_None(t.val)
                              THEN Continue(f, c, first_request)
                              ELSE EndCycle(f, c, "resolution-failed")
    /\ UNCHANGED <<cfg, store, zone_id, record, passes, sleeps, store_calls>>
    /\ UNCHANGED <<ext_writes, mvars>>

\* check_and_perform_ipv4_update / _ipv6_update up to the put: lines 59-67, 74-82
Get(f) ==
    /\ pc = Step(f, "get")
    /\ \E o \in {"ok", "error"} :
         LET c == [cyc[f] EXCEPT !.gets = Inc(@)]
         IN  IF o = "error"
             THEN Raised(f, c, "CloudFlareAPIError") /\ record' = record
             ELSE IF Len(store[record_type(f)]) = 0
             THEN Raised(f, c, "IndexError") /\ record' = record
             ELSE LET rec == AsDict(store[record_type(f)][1])
                      d == [c EXCEPT !.got = <<rec>>]
                  IN  IF need_to_update(rec, current_ip[f])
                      THEN /\ record' = [record EXCEPT
                                           ![f] = <<put_body(rec, current_ip[f])>>]
                           /\ Continue(f, d, "put")
                      ELSE /\ EndCycle(f, d, "up-to-date")
                           /\ record' = record
    /\ UNCHANGED <<cfg, store, zone_id, current_ip, passes, sleeps, store_calls>>
    /\ UNCHANGED <<ext_writes, mvars>>

\* check_and_perform_ipv4_update / _ipv6_update, the put: lines 68-69, 83-84
Put(f) ==
    /\ pc = Step(f, "put")
    /\ LET body == record[f][1]
           id == put_target(body)
       IN  IF body.content.type \notin {"str", "NoneType"}
           THEN \* json cannot serialise the body: no request leaves
                /\ Raised(f, cyc[f], "TypeError")
                /\ store' = store
           ELSE /\ \E o \in IF body.content.type = "str" THEN {"ok", "error"}
                            ELSE {"error"} : \* content null is refused
                     LET c == [cyc[f] EXCEPT
                                 !.puts = Inc(@),
                                 !.put = <<[id |-> id, body |-> body,
                                            ok |-> (o = "ok"),
                                            before |-> store[f]]>>]
                     IN  IF o = "ok"
                         THEN /\ store' = StorePut(store, id, body)
                              /\ EndCycle(f, c, "updated")
                         ELSE /\ store' = store
                              /\ Raised(f, c, "CloudFlareAPIError")
    /\ record' = [record EXCEPT ![f] = <<>>]
    /\ UNCHANGED <<cfg, zone_id, current_ip, passes, sleeps, store_calls>>
    /\ UNCHANGED <<ext_writes, mvars>>

ResolveIPv4 == Resolve("A")

GetIPv4 == Get("A")

PutIPv4 == Put("A")

ResolveIPv6 == Resolve("AAAA")

GetIPv6 == Get("AAAA")

PutIPv6 == Put("AAAA")

\* line 181, then line 148: time.sleep raises ValueError for a negative
\* length, outside any try; when it returns the next iteration begins
Sleep ==
    /\ pc = "sleep"
    /\ sleeps' = IF sleeps < MaxPasses - 1 THEN sleeps + 1 ELSE sleeps
    /\ IF cfg.interval < 0
       THEN /\ pc' = "crashed" /\ exit_code' = 1
            /\ UNCHANGED <<cyc, prev, passes>>
       ELSE /\ exit_code' = exit_code
            /\ BeginPass
    /\ UNCHANGED <<cfg, store, zone_id, current_ip, record, store_calls>>
    /\ UNCHANGED <<ext_writes, mvars>>

InLoop == pc \notin {"off", "args", "zones", "exited", "crashed"}

\* what another writer can make of a record: another address (one of those
\* the Address Source knows, or one of its own) or another TTL
Edits(r) ==
    {[r EXCEPT !.content = a] :
        a \in (AddrsOf(r.type) \cup {ForeignAddr(r.type)}) \ {r.content}}
    \cup {[r EXCEPT !.ttl = t] : t \in {1, 300} \ {r.ttl}}

\* Another writer of the provider's record changes it.  The process sees a
\* record only in its get and its put: a write is taken where it can make a
\* difference to them, while the process is about to issue the get (the
\* writes since its last request) or the put (the writes since the get).
ExternalWrite ==
    /\ InLoop
    /\ ext_writes < MaxExtWrites
    /\ ext_writes' = ext_writes + 1
    /\ \E f \in Families :
         /\ pc \in {Step(f, "get"), Step(f, "put")}
         /\ store[f] # <<>>
         /\ \E e \in Edits(store[f][1]) :
              store' = [store EXCEPT ![f] = <<e>>]
         /\ cyc' = [cyc EXCEPT ![f].ext = TRUE]
    /\ UNCHANGED <<cfg, pc, exit_code, zone_id, current_ip, record, prev, passes,
                   sleeps, store_calls>>
    /\ UNCHANGED mvars

ProgramStep ==
    \/ ArgsCheck
    \/ ZonesGet
    \/ ResolveIPv4
    \/ GetIPv4
    \/ PutIPv4
    \/ ResolveIPv6
    \/ GetIPv6
    \/ PutIPv6
    \/ Sleep

Next == ProgramStep \/ ExternalWrite

Spec == Init /\ [][Next]_vars

\* the process is scheduled and every blocking call returns or times out
FairSpec == Spec /\ WF_vars(ProgramStep)

----------------------------------------------------------------------------
(* update-dyndns.py: the same loop, the record fetched before the address *)

DyndnsConfigs ==
    [variant : {"update-dyndns"}, ipv4 : BOOLEAN, ipv6 : BOOLEAN,
     ipv6_host : {None}, interval : Intervals]

\* what requests.get(url) does, lines 15, 34: there is no timeout
DyndnsHttpOutcomes(f) ==
    {[kind |-> "response", text |-> a] : a \in AddrsOf(f)}
    \cup {[kind |-> "ConnectionError"], [kind |-> "ChunkedEncodingError"]}

\* lines 21, 40
dyndns_need_to_update(f, rec, current) ==
    IF f = "A" THEN rec.content # current
    ELSE rec.content # current /\ current # None

InitDyndns ==
    /\ cfg \in DyndnsConfigs
    /\ store \in Stores
    /\ pc = "args"
    /\ exit_code = -1
    /\ zone_id = ""
    /\ current_ip = [f \in Families |-> Unbound]
    /\ record = [f \in Families |-> <<>>]
    /\ cyc = [f \in Families |-> NewCycle(FALSE)]
    /\ prev = [f \in Families |-> NoCarry]
    /\ passes = 0 /\ sleeps = 0 /\ store_calls = 0 /\ ext_writes = 0
    /\ m_net = <<>> /\ m_host = <<>> /\ m_len = 0 /\ m_res = None /\ m_pc = "off"

\* lines 12, 31: the get of the record, and [0] of the list it returns
DyndnsGet(f) ==
    /\ pc = Step(f, "get")
    /\ \E o \in {"ok", "error"} :
         LET c == [cyc[f] EXCEPT !.gets = Inc(@)]
         IN  IF o = "error"
             THEN Raised(f, c, "CloudFlareAPIError") /\ record' = record
             ELSE IF Len(store[record_type(f)]) = 0
             THEN Raised(f, c, "IndexError") /\ record' = record
             ELSE LET rec == AsDict(store[record_type(f)][1])
                  IN  /\ record' = [record EXCEPT ![f] = <<rec>>]
                      /\ Continue(f, [c EXCEPT !.got = <<rec>>], "resolve")
    /\ UNCHANGED <<cfg, store, zone_id, current_ip, passes, sleeps, store_calls>>
    /\ UNCHANGED <<ext_writes, mvars>>

\* lines 14-26 and 33-45: the address, the comparison, the new content
DyndnsResolve(f) ==
    /\ pc = Step(f, "resolve")
    /\ \E env \in DyndnsHttpOutcomes(f) :
         LET rec == record[f][1]
         IN  CASE env.kind = "ConnectionError" /\ f = "A" ->
                    \* line 18: return
                    /\ current_ip' = current_ip
                    /\ record' = [record EXCEPT ![f] = <<>>]
                    /\ EndCycle(f, [cyc[f] EXCEPT !.src = "None"], "resolution-failed")
               [] env.kind \in {"response", "ConnectionError"} /\
                  (env.kind = "response" \/ f = "AAAA") ->
                    LET cur == IF env.kind = "response" THEN Str(env.text) ELSE None
                        c == [cyc[f] EXCEPT
                                !.src = IF cur = None THEN "None" ELSE cur.val]
                    IN  /\ current_ip' = [current_ip EXCEPT ![f] = cur]
                        /\ IF dyndns_need_to_update(f, rec, cur)
                           THEN /\ record' = [record EXCEPT
                                                ![f] = <<put_body(rec, cur)>>]
                                /\ Continue(f, c, "put")
                           ELSE /\ record' = [record EXCEPT ![f] = <<>>]
                                /\ EndCycle(f, c, IF cur = None
                                                  THEN "resolution-failed"
                                                  ELSE "up-to-date")
               [] OTHER ->
                    /\ current_ip' = current_ip
                    /\ record' = [record EXCEPT ![f] = <<>>]
                    /\ Raised(f, [cyc[f] EXCEPT !.src = "raised"], env.kind)
    /\ UNCHANGED <<cfg, store, zone_id, passes, sleeps, store_calls>>
    /\ UNCHANGED <<ext_writes, mvars>>

DyndnsGetIPv4 == DyndnsGet("A")

DyndnsResolveIPv4 == DyndnsResolve("A")

DyndnsGetIPv6 == DyndnsGet("AAAA")

DyndnsResolveIPv6 == DyndnsResolve("AAAA")

\* the put (lines 27, 46), the sleep (line 86) and the startup (lines 59-76)
\* are those of flaredns.py
NextDyndns ==
    \/ ArgsCheck
    \/ ZonesGet
    \/ DyndnsGetIPv4
    \/ DyndnsResolveIPv4
    \/ PutIPv4
    \/ DyndnsGetIPv6
    \/ DyndnsResolveIPv6
    \/ PutIPv6
    \/ Sleep
    \/ ExternalWrite

SpecDyndns == InitDyndns /\ [][NextDyndns]_vars

----------------------------------------------------------------------------
(* The arithmetic on its own: replace_ipv6_host_part on chosen operands *)

Min(a, b) == IF a < b THEN a ELSE b

AddrPool == {AddrList[i].packed : i \in 1..Min(NumAddrs, Len(AddrList))}

PyInt(n) == [type |-> "int", val |-> n]

\* the address object of packed bytes: 4 bytes an IPv4, 16 an IPv6 address
AddressOf(packed) ==
    IF Len(packed) = 4 THEN IPv4Address(packed) ELSE IPv6Address(packed)

InitMerge ==
    /\ m_net \in AddrPool
    /\ m_host \in AddrPool
    /\ m_len \in 0..WIDTH
    /\ m_res = None
    /\ m_pc = "input"
    /\ cfg = [variant |-> "flaredns", ipv4 |-> FALSE, ipv6 |-> FALSE,
              ipv6_host |-> None, interval |-> 0]
    /\ store = [f \in Families |-> <<>>]
    /\ pc = "off"
    /\ exit_code = -1
    /\ zone_id = ""
    /\ current_ip = [f \in Families |-> Unbound]
    /\ record = [f \in Families |-> <<>>]
    /\ cyc = [f \in Families |-> NewCycle(FALSE)]
    /\ prev = [f \in Families |-> NoCarry]
    /\ passes = 0 /\ sleeps = 0 /\ store_calls = 0 /\ ext_writes = 0

CallReplace ==
    /\ m_pc = "input"
    /\ m_res' = replace_ipv6_host_part(AddressOf(m_net), AddressOf(m_host),
                                       PyInt(m_len))
    /\ m_pc' = "done"
    /\ UNCHANGED <<m_net, m_host, m_len>>
    /\ UNCHANGED loopvars

NextMerge == CallReplace

SpecMerge == InitMerge /\ [][NextMerge]_vars

----------------------------------------------------------------------------
(* The arithmetic on operands of any kind: addresses of either family and *)
(* prefix lengths in and out of range                                     *)

\* the IPv6 addresses tried and the IPv4 address 203.0.113.5
OperandPool == AddrPool \cup {<<203, 0, 113, 5>>}

PrefixLengths == (0 - 1)..(WIDTH + 1)

InitArith ==
    /\ m_net \in OperandPool
    /\ m_host \in OperandPool
    /\ m_len \in PrefixLengths
    /\ m_res = None
    /\ m_pc = "input"
    /\ cfg = [variant |-> "flaredns", ipv4 |-> FALSE, ipv6 |-> FALSE,
              ipv6_host |-> None, interval |-> 0]
    /\ store = [f \in Families |-> <<>>]
    /\ pc = "off"
    /\ exit_code = -1
    /\ zone_id = ""
    /\ current_ip = [f \in Families |-> Unbound]
    /\ record = [f \in Families |-> <<>>]
    /\ cyc = [f \in Families |-> NewCycle(FALSE)]
    /\ prev = [f \in Families |-> NoCarry]
    /\ passes = 0 /\ sleeps = 0 /\ store_calls = 0 /\ ext_writes = 0

\* the call op(args) is made and its outcome kept
Called(op, outcome) ==
    /\ m_pc = "input"
    /\ m_res' = outcome
    /\ m_pc' = op
    /\ UNCHANGED <<m_net, m_host, m_len>>
    /\ UNCHANGED loopvars

\* replace_ipv6_host_part applied to its own result
CallReplaceTwice ==
    LET once == replace_ipv6_host_part(AddressOf(m_net), AddressOf(m_host),
                                       PyInt(m_len))
    IN  Called("replace_twice",
               IF once.raised THEN once
               ELSE replace_ipv6_host_part(once.val, AddressOf(m_host),
                                           PyInt(m_len)))

CallAnd == Called("and", bitwise_and_ipv6(AddressOf(m_net), AddressOf(m_host)))

CallOr == Called("or", bitwise_or_ipv6(AddressOf(m_net), AddressOf(m_host)))

CallXor == Called("xor", bitwise_xor_ipv6(AddressOf(m_net), AddressOf(m_host)))

CallNot == Called("not", bitwise_not_ipv6(AddressOf(m_net)))

NextArith ==
    \/ CallReplace
    \/ CallReplaceTwice
    \/ CallAnd
    \/ CallOr
    \/ CallXor
    \/ CallNot

SpecArith == InitArith /\ [][NextArith]_vars


----------------------------------------------------------------------------
(* Claims *)

Finished(f) == cyc[f].outcome \notin {"pending", "skipped"}

\* a step of the program itself, not of another writer
OwnStep == ext_writes' = ext_writes

\* C1: in a pass in which the Address Source returned None for a family, no
\* put is issued for that family (none is pending either), and no step of the
\* program changes the family's stored record; with and without --ipv6-host.
C1_AbsentNeverWrites ==
    /\ [](\A f \in Families :
            cyc[f].src = "None" =>
                /\ cyc[f].puts = 0 /\ cyc[f].put = <<>>
                /\ pc # Step(f, "put"))
    /\ [][\A f \in Families :
            (cyc[f].src = "None" /\ OwnStep) => store'[f] = store[f]]_vars

\* both families absent in one pass, IPv6 with a well-formed --ipv6-host
C1_Witness ==
    /\ cfg.ipv4 /\ cfg.ipv6 /\ cfg.ipv6_host = ArgStr(<<"::dead:cafe", "/", "64">>)
    /\ cyc["A"].src = "None" /\ cyc["A"].outcome = "resolution-failed"
    /\ cyc["AAAA"].src = "None" /\ Finished("AAAA")
    /\ store["A"] # <<>> /\ store["AAAA"] # <<>>

\* C2: whenever the content of the fetched record equals the desired address
\* no put is issued in that cycle (outcome up-to-date); every put, issued or
\* about to be, follows a get of the same cycle whose content differed.
C2_EqualContentNoPut ==
    \A f \in Families :
        /\ (cyc[f].got # <<>> /\ cyc[f].got[1].content = current_ip[f]) =>
               /\ cyc[f].puts = 0 /\ pc # Step(f, "put")
               /\ cyc[f].outcome = "up-to-date"
        /\ (cyc[f].puts > 0 \/ pc = Step(f, "put")) =>
               /\ cyc[f].gets = 1 /\ cyc[f].got # <<>>
               /\ cyc[f].got[1].content # current_ip[f]

\* the stored AAAA content equals the resolved IPv6 address
C2_Witness ==
    /\ cyc["AAAA"].outcome = "up-to-date"
    /\ cyc["AAAA"].got[1].content = Str("2001:db8::1")
    /\ current_ip["AAAA"] = Str("2001:db8::1")

\* C3: a cycle that resolved an address and fetched a record of different
\* content issues exactly one put, to the id of the fetched record, with
\* content equal to the desired address; if the put succeeded and nobody else
\* wrote, the stored content is the desired address.
C3_DifferentContentOnePut ==
    \A f \in Families :
        (/\ Finished(f)
         /\ cyc[f].got # <<>>
         /\ cyc[f].got[1].content # current_ip[f]) =>
            /\ cyc[f].puts = 1
            /\ cyc[f].put[1].id = cyc[f].got[1].id
            /\ cyc[f].put[1].body.content = current_ip[f]
            /\ current_ip[f] = Str(cyc[f].src)
            /\ (cyc[f].put[1].ok /\ ~cyc[f].ext) =>
                   store[f][1].content = cyc[f].src

\* stored 203.0.113.5, resolved 203.0.113.9: a put with content 203.0.113.9
C3_Witness ==
    /\ cyc["A"].outcome = "updated"
    /\ cyc["A"].got[1].content = Str("203.0.113.5")
    /\ cyc["A"].put[1].body.content = Str("203.0.113.9")
    /\ store["A"][1].content = "203.0.113.9"


\* the step in which family f's cycle of the running pass ends
CycleEnds(f) == cyc[f].outcome = "pending" /\ cyc'[f].outcome # "pending"

\* Two consecutive cycles of family f with no external change: the Address
\* Source returned the same value in both, nobody else wrote the record from
\* the start of the first to the end of the second, and the put of the
\* first, if any, succeeded.  Stated of the step that ends the second.
SecondOfTwoAlike(f) ==
    /\ CycleEnds(f)
    /\ prev[f].valid
    /\ prev[f].src = cyc'[f].src
    /\ ~cyc'[f].ext

SecondFindsEqual(f) ==
    /\ cyc'[f].puts = 0
    /\ cyc'[f].got # <<>> => cyc'[f].got[1].content = current_ip'[f]

\* C4 as stated: after such a first cycle the second finds the stored content
\* equal to the desired address and issues no put, and the two cycles
\* together issue at most one put.
C4_Original ==
    [][\A f \in Families :
         SecondOfTwoAlike(f) =>
             /\ SecondFindsEqual(f)
             /\ prev[f].puts + cyc'[f].puts <= 1]_vars

\* C4, amended: the two cycles together issue at most one put; and if the
\* first cycle got the record (it ended up-to-date or updated), the second
\* issues no put and finds, when its get returns the record, the stored
\* content equal to the desired address.
C4_Idempotent ==
    [][\A f \in Families :
         SecondOfTwoAlike(f) =>
             /\ prev[f].puts + cyc'[f].puts <= 1
             /\ prev[f].compared => SecondFindsEqual(f)]_vars

\* the second cycle is at its get; the first one put the address, which the
\* Address Source returned again
C4_Witness ==
    /\ pc = "v6_get"
    /\ passes = 2
    /\ prev["AAAA"].valid /\ prev["AAAA"].puts = 1 /\ prev["AAAA"].compared
    /\ prev["AAAA"].src = cyc["AAAA"].src
    /\ ~cyc["AAAA"].ext
    /\ current_ip["AAAA"] = Str(store["AAAA"][1].content)

\* C5: an exception of a family's cycle never leaves the family's try
\* statement; when both families are enabled, the IPv6 cycle is run in every
\* pass whatever the IPv4 cycle did, and no step of the IPv6 cycle touches
\* what the IPv4 cycle did or the A record.
C5_FamiliesIsolated ==
    /\ [](/\ \A f \in Families : cyc[f].outcome # "escaped"
          /\ (cfg.ipv4 /\ cfg.ipv6 /\ Finished("A")) =>
                 \/ pc \in {"v6_resolve", "v6_get", "v6_put"}
                 \/ Finished("AAAA")
          /\ (pc = "sleep" \/ (pc = "exited" /\ exit_code = 0)) =>
                 \A f \in Families : cyc[f].outcome # "pending")
    /\ [][(pc \in {"v6_resolve", "v6_get", "v6_put"} /\ OwnStep) =>
             /\ store'["A"] = store["A"]
             /\ cyc'["A"] = cyc["A"]]_vars

\* the record get of the IPv4 cycle failed, the IPv6 cycle updated its record
C5_Witness ==
    /\ cfg.ipv4 /\ cfg.ipv6
    /\ cyc["A"].outcome = "error" /\ cyc["A"].gets = 1 /\ cyc["A"].got = <<>>
    /\ cyc["AAAA"].outcome = "updated"
    /\ pc = "sleep"

\* C6 as stated: once the loop has started, for every interval other than 0
\* the process never stops.
C6_LoopNeverStops ==
    (passes >= 1 /\ cfg.interval # 0) => pc \notin {"exited", "crashed"}

\* how far the process is in a pass, by its position
Rank(p) ==
    CASE p = "v4_resolve" -> 1 [] p = "v4_get" -> 2 [] p = "v4_put" -> 3
      [] p = "v6_resolve" -> 4 [] p = "v6_get" -> 5 [] p = "v6_put" -> 6
      [] p = "sleep" -> 7 [] OTHER -> 8

\* C7: with interval 0 the loop makes one pass, every enabled family's cycle
\* run once to its end, and exits with status 0 without calling sleep.  It
\* always gets there: until it has exited the process has a step to take,
\* and each of its steps brings it nearer to the exit.
C7_RunOnce ==
    /\ []((passes >= 1 /\ cfg.interval = 0) =>
              /\ passes = 1 /\ sleeps = 0
              /\ pc \notin {"sleep", "crashed"}
              /\ pc = "exited" \/ ENABLED ProgramStep)
    /\ []((pc = "exited" /\ exit_code = 0) =>
              /\ cfg.interval = 0
              /\ passes = 1 /\ sleeps = 0
              /\ \A f \in Families :
                    /\ (IF f = "A" THEN cfg.ipv4 ELSE cfg.ipv6) => Finished(f)
                    /\ cyc[f].gets <= 1 /\ cyc[f].puts <= 1)
    /\ [][(passes >= 1 /\ cfg.interval = 0 /\ OwnStep) =>
              Rank(pc') > Rank(pc)]_vars

\* run once, the IPv4 cycle failed and the IPv6 cycle updated
C7_Witness ==
    /\ pc = "exited" /\ exit_code = 0
    /\ cfg.ipv4 /\ cfg.ipv6
    /\ cyc["A"].outcome = "error"
    /\ cyc["AAAA"].outcome = "updated"


\* neither --ipv4 nor --ipv6 was given
NeitherFamily == ~cfg.ipv4 /\ ~cfg.ipv6

\* the process has stopped before the loop started
FatalAtStartup == passes = 0 /\ pc \in {"exited", "crashed"}

\* nothing of a reconciliation pass has happened
NoPassRan ==
    /\ \A f \in Families : cyc[f] = NewCycle(FALSE) /\ current_ip[f] = Unbound
    /\ sleeps = 0

\* C8 as stated: startup is fatal in exactly two cases, neither family
\* enabled (exit code 1, before any Record Store access) and no zone found
\* (exit code 2); no pass runs in either.
C8_Original ==
    FatalAtStartup =>
        /\ \/ NeitherFamily /\ exit_code = 1 /\ store_calls = 0
           \/ ~NeitherFamily /\ exit_code = 2
        /\ NoPassRan

\* C8, amended: startup is fatal in three cases: neither family enabled
\* (sys.exit(1), before any Record Store access), no zone found
\* (sys.exit(2)), and the zone lookup raising, which nothing catches (the
\* interpreter ends with status 1).  No pass runs in any of them, and a
\* process that has not stopped at startup has found its zone.
C8_StartupFatal ==
    /\ FatalAtStartup =>
          /\ \/ /\ NeitherFamily
                /\ pc = "exited" /\ exit_code = 1 /\ store_calls = 0
             \/ /\ ~NeitherFamily
                /\ pc = "exited" /\ exit_code = 2 /\ store_calls = 1
             \/ /\ ~NeitherFamily
                /\ pc = "crashed" /\ exit_code = 1 /\ store_calls = 1
          /\ zone_id = ""
          /\ NoPassRan
    /\ passes = 0 => NoPassRan
    /\ passes >= 1 => zone_id # "" /\ ~NeitherFamily

\* no zone for the domain of hostname
C8_Witness ==
    /\ pc = "exited" /\ exit_code = 2 /\ passes = 0
    /\ cfg.ipv4 /\ cfg.ipv6
    /\ store["A"] # <<>>

\* the text of the address replace_ipv6_host_part makes of the three texts
MergedText(net, host, len) ==
    LET r == replace_ipv6_host_part(ParseIPv6(net).val, ParseIPv6(host).val, Str(len))
    IN  AddrList[CHOOSE i \in 1..Len(AddrList) :
                     AddrList[i].packed = r.val.packed].text

\* C9 as stated: with --ipv6-host ::dead:cafe/64 a cycle that resolved an
\* address goes on to the stored AAAA record, and the address it compares
\* with the stored content and writes is the network of the stored record
\* with the host part dead:cafe.
C9_DesiredIsMergedAddress ==
    (/\ cfg.ipv6_host = ArgStr(<<"::dead:cafe", "/", "64">>)
     /\ cyc["AAAA"].src \in V6Addrs
     /\ store["AAAA"] # <<>>
     /\ Finished("AAAA")) =>
        /\ cyc["AAAA"].gets = 1
        /\ current_ip["AAAA"] =
              Str(MergedText(store["AAAA"][1].content, "::dead:cafe", "64"))

\* C11 as stated: the Address Source returns a value or None, whatever the
\* resolution does; no exception of it reaches the update loop.
C11_SourceNeverRaises ==
    \A f \in Families : cyc[f].src # "raised"

\* family f's cycle has its record and is about to put, and the stored
\* record is no longer the one the get returned
WrittenSinceGet(f) ==
    /\ pc = Step(f, "put")
    /\ AsDict(store[f][1]) # cyc[f].got[1]

\* the body of the put the step issues is the record of the get with the
\* desired address as content
BodyFromSnapshot(f) ==
    /\ cyc'[f].put[1].id = cyc[f].got[1].id
    /\ cyc'[f].put[1].body = [cyc[f].got[1] EXCEPT !.content = current_ip[f]]

\* C12: when another actor has written the record between the get and the
\* put of family f's cycle, the put is issued all the same (it is neither
\* held back nor preceded by another get), its body is the record of the get
\* with the desired address, and when the provider accepts it the stored
\* record is that body: the other actor's write is gone.  The cycle then
\* ends; it is not run again in the pass.
C12_LastWriterWins ==
    /\ [](\A f \in Families : WrittenSinceGet(f) => ENABLED Put(f))
    /\ [][\A f \in Families :
            (WrittenSinceGet(f) /\ OwnStep) =>
                /\ cyc'[f].gets = 1 /\ cyc'[f].puts = 1
                /\ cyc'[f].put[1].before = store[f]
                /\ BodyFromSnapshot(f)
                /\ cyc'[f].put[1].ok =>
                       /\ store'[f][1].content = current_ip[f].val
                       /\ AsDict(store'[f][1]) = cyc'[f].put[1].body
                /\ cyc'[f].outcome = IF cyc'[f].put[1].ok THEN "updated" ELSE "error"
                /\ pc' \notin {Step(f, "resolve"), Step(f, "get"), Step(f, "put")}]_vars

\* the get returned 203.0.113.5, another actor then wrote 198.51.100.7, and
\* the put replaced it by the desired 203.0.113.9
C12_Witness ==
    /\ cyc["A"].outcome = "updated"
    /\ cyc["A"].got[1].content = Str("203.0.113.5")
    /\ cyc["A"].put[1].before[1].content = "198.51.100.7"
    /\ current_ip["A"] = Str("203.0.113.9")
    /\ store["A"][1].content = "203.0.113.9"

\* the attributes of a record other than its content
Others(r) == [id |-> r.id, type |-> r.type, ttl |-> r.ttl]

\* C13 as stated: the body of every put is the record of the get with the
\* content replaced, and every attribute of the stored record other than its
\* content is after the put what it was immediately before the put.
C13_Original ==
    [][\A f \in Families :
         (pc = Step(f, "put") /\ OwnStep) =>
             /\ BodyFromSnapshot(f)
             /\ Others(store'[f][1]) = Others(store[f][1])]_vars

\* C13, amended: the body of every put is the record of the get with the
\* content replaced; after an accepted put every attribute of the stored
\* record other than its content is what the get returned, which is what it
\* was immediately before the put unless another actor wrote the record
\* between the get and the put.  A refused put and the other family's record
\* are left alone.
C13_OnlyContent ==
    [][\A f \in Families :
         (pc = Step(f, "put") /\ OwnStep) =>
             /\ BodyFromSnapshot(f)
             /\ cyc'[f].put[1].ok =>
                    /\ Others(store'[f][1]) = Others(cyc[f].got[1])
                    /\ store'[f][1].content = current_ip[f].val
                    /\ AsDict(store[f][1]) = cyc[f].got[1] =>
                           Others(store'[f][1]) = Others(store[f][1])
             /\ ~cyc'[f].put[1].ok => store'[f] = store[f]
             /\ \A g \in Families \ {f} : store'[g] = store[g]]_vars

\* a put of the AAAA record whose TTL another actor had set to 300 before the
\* cycle: the content is new, the TTL still 300
C13_Witness ==
    /\ cyc["AAAA"].outcome = "updated"
    /\ cyc["AAAA"].got[1].ttl = 300
    /\ cyc["AAAA"].put[1].before = <<[id |-> "id-AAAA", type |-> "AAAA",
                                      content |-> "2001:db8::1", ttl |-> 300]>>
    /\ store["AAAA"] = <<[id |-> "id-AAAA", type |-> "AAAA",
                          content |-> "2001:db8::dead:cafe", ttl |-> 300]>>

\* C14: the record a cycle works on exists only between the get and the put
\* of that cycle.  Every put, issued or about to be, follows the one get of
\* the same family in the same pass, and its body is the record that get
\* returned with the content replaced; the get returns the record as the
\* provider holds it at that moment; and a pass starts with no record at
\* hand, whatever the pass before fetched.
C14_NoSnapshotSurvives ==
    /\ [](\A f \in Families :
            /\ record[f] # <<>> =>
                   /\ pc = Step(f, "put")
                   /\ record[f][1] = [cyc[f].got[1] EXCEPT !.content = current_ip[f]]
            /\ (pc = Step(f, "put") \/ cyc[f].put # <<>>) =>
                   /\ cyc[f].gets = 1 /\ cyc[f].got # <<>>
            /\ cyc[f].put # <<>> =>
                   cyc[f].put[1].body =
                       [cyc[f].got[1] EXCEPT !.content = current_ip[f]]
            /\ cyc[f].gets = 0 => cyc[f].got = <<>> /\ cyc[f].puts = 0)
    /\ [][\A f \in Families :
            /\ (cyc'[f].got # cyc[f].got /\ cyc'[f].got # <<>>) =>
                   /\ pc = Step(f, "get")
                   /\ cyc'[f].got = <<AsDict(store[f][1])>>
            /\ (pc \in {"zones", "sleep"} /\ OwnStep
                  /\ pc' \notin {"exited", "crashed"}) =>
                   /\ record'[f] = <<>>
                   /\ cyc'[f].gets = 0 /\ cyc'[f].got = <<>>]_vars

\* the second pass is about to put what its own get returned
C14_Witness ==
    /\ passes = 2 /\ sleeps = 1
    /\ pc = "v4_put"
    /\ cyc["A"].gets = 1
    /\ cyc["A"].got = <<AsDict(store["A"][1])>>
    /\ record["A"][1].content = current_ip["A"]
    /\ record["A"][1].content # cyc["A"].got[1].content

\* --ipv6-host without slash, without host address or without prefix length
Malformed ==
    cfg.ipv6_host \in {ArgStr(<<"::dead:cafe">>), ArgStr(<<"/", "64">>),
                       ArgStr(<<"::dead:cafe", "/">>)}

\* C15: with a malformed --ipv6-host the IPv6 cycle of every pass ends in an
\* error that its try statement catches, with no get and no put of the AAAA
\* record.  The step in which it fails leaves the IPv4 cycle's work and the
\* provider's records alone and takes the process to the end of the pass as
\* any cycle does: to the sleep, or for interval 0 to the exit with status
\* 0.  When the sleep returns (interval above 0) the next pass begins, with
\* the IPv4 cycle first if IPv4 is enabled.
C15_MalformedHostFailsIPv6Only ==
    /\ [](Malformed =>
            /\ cyc["AAAA"].gets = 0 /\ cyc["AAAA"].puts = 0
            /\ pc \notin {"v6_get", "v6_put"}
            /\ passes >= 1 => cyc["AAAA"].outcome \in {"pending", "error"}
            /\ (pc = "sleep" \/ (pc = "exited" /\ exit_code = 0)) =>
                   cyc["AAAA"].outcome = "error")
    /\ [][(Malformed /\ pc = "v6_resolve" /\ OwnStep) =>
            /\ cyc'["AAAA"].outcome = "error"
            /\ cyc'["A"] = cyc["A"]
            /\ store' = store
            /\ pc' = IF cfg.interval = 0 THEN "exited" ELSE "sleep"
            /\ exit_code' = IF cfg.interval = 0 THEN 0 ELSE -1]_vars
    /\ [][(Malformed /\ pc = "sleep" /\ cfg.interval > 0 /\ OwnStep) =>
            /\ pc' = IF cfg.ipv4 THEN "v4_resolve" ELSE "v6_resolve"
            /\ cyc'["AAAA"].outcome = "pending"]_vars

\* second pass with --ipv6-host ::dead:cafe (no slash): the IPv4 cycle has
\* updated the A record, the IPv6 cycle has failed after resolving an address
C15_Witness ==
    /\ cfg.ipv6_host = ArgStr(<<"::dead:cafe">>)
    /\ passes = 2 /\ pc = "sleep"
    /\ cyc["A"].outcome = "updated"
    /\ cyc["AAAA"].src \in V6Addrs
    /\ cyc["AAAA"].outcome = "error"
    /\ store["AAAA"] # <<>>

\* a text without the newline at its end
Trim(s) ==
    IF \E a \in V4Addrs \cup V6Addrs : s = a \o "\n"
    THEN CHOOSE a \in V4Addrs \cup V6Addrs : s = a \o "\n"
    ELSE s

\* C20 as stated: with the echo service the address a cycle compares with
\* the fetched record and writes is the trimmed response body; when the
\* fetched content equals the trimmed body no put is issued.
C20_TrimmedResponseCompared ==
    \A f \in Families :
        (cfg.variant = "flaredns" /\ cyc[f].got # <<>>) =>
            /\ current_ip[f] = Str(Trim(cyc[f].src))
            /\ cyc[f].got[1].content = Str(Trim(cyc[f].src)) =>
                   cyc[f].puts = 0 /\ pc # Step(f, "put")

\* the get of family f's cycle failed or returned no record, or its put failed
StoreErrorIn(f) ==
    \/ cyc[f].gets = 1 /\ cyc[f].got = <<>>
    \/ cyc[f].put # <<>> /\ ~cyc[f].put[1].ok

\* C19 as stated: in update-dyndns.py a Record Store error in a family's
\* cycle ends that cycle only; the process goes on, to the other family's
\* cycle when IPv6 is enabled and the failed cycle was the IPv4 one.
C19_StoreErrorAbortsCycleOnly ==
    \A f \in Families :
        (cfg.variant = "update-dyndns" /\ StoreErrorIn(f)) =>
            /\ cyc[f].outcome = "error"
            /\ (f = "A" /\ cfg.ipv6) =>
                   \/ pc \in {"v6_get", "v6_resolve", "v6_put"}
                   \/ Finished("AAAA")

\* family f is enabled: --ipv4 for A, --ipv6 for AAAA
Selected(f) == IF f = "A" THEN cfg.ipv4 ELSE cfg.ipv6

\* the positions of family f's cycle
StepsOf(f) == {Step(f, "resolve"), Step(f, "get"), Step(f, "put")}

\* C21: the record a family's cycle gets, holds and puts is the record of
\* the family's own type; a step of a family's cycle leaves the other
\* family's record and cycle alone; a family that is not enabled has no
\* cycle (no resolution, no get, no put) and no step of the program changes
\* its record; and a pass issues at most one get and one put per family.
C21_FamiliesNeverCross ==
    /\ [](\A f \in Families :
            /\ cyc[f].got # <<>> =>
                   /\ cyc[f].got[1].type = f
                   /\ cyc[f].got[1].id = store[f][1].id
            /\ record[f] # <<>> => record[f][1].type = f
            /\ cyc[f].put # <<>> =>
                   /\ cyc[f].put[1].body.type = f
                   /\ cyc[f].put[1].id = store[f][1].id
            /\ store[f] # <<>> => store[f][1].type = f
            /\ cyc[f].gets <= 1 /\ cyc[f].puts <= 1
            /\ ~Selected(f) =>
                   /\ pc \notin StepsOf(f)
                   /\ cyc[f] \in {NewCycle(FALSE)}
                   /\ current_ip[f] = Unbound /\ record[f] = <<>>)
    /\ [][\A f \in Families :
            /\ (pc \in StepsOf(f) /\ OwnStep) =>
                   \A g \in Families \ {f} :
                       store'[g] = store[g] /\ cyc'[g] = cyc[g]
            /\ (~Selected(f) /\ OwnStep) => store'[f] = store[f]]_vars

\* one pass has replaced the content of both records, each by an address of
\* its own family
C21_Witness ==
    /\ cfg.ipv4 /\ cfg.ipv6
    /\ cyc["A"].outcome = "updated" /\ cyc["A"].put[1].id = "id-A"
    /\ cyc["AAAA"].outcome = "updated" /\ cyc["AAAA"].put[1].id = "id-AAAA"
    /\ store["A"][1].content = "203.0.113.9"
    /\ store["AAAA"][1].content = "2001:db8::dead:cafe"


----------------------------------------------------------------------------
(* Claims on the arithmetic *)

\* bit i of an address, counted from the most significant
Bit(packed, i) == (packed[((i - 1) \div 8) + 1] \div (2 ^ (7 - ((i - 1) % 8)))) % 2

BothIPv6 == Len(m_net) = 16 /\ Len(m_host) = 16

\* the call returned an IPv6 address of 16 bytes
ReturnedAddress ==
    /\ ~m_res.raised
    /\ m_res.val.type = "IPv6Address"
    /\ Len(m_res.val.packed) = 16
    /\ \A k \in 1..16 : m_res.val.packed[k] \in 0..255

\* C16 as stated: replace_ipv6_host_part and the bitwise AND, OR and XOR
\* raise an argument error when one operand is an IPv4 and the other an IPv6
\* address, and replace_ipv6_host_part when the prefix length is not in
\* 0..128; no address is returned then.
C16_InvalidOperandsRejected ==
    /\ (m_pc \in {"done", "and", "or", "xor"} /\ Len(m_net) # Len(m_host)) =>
           /\ m_res.raised
           /\ m_res.exc \in {"ValueError", "TypeError", "AddressValueError",
                              "NetmaskValueError"}
    /\ (m_pc = "done" /\ m_len \notin 0..WIDTH) =>
           /\ m_res.raised
           /\ m_res.exc \in {"ValueError", "NetmaskValueError"}

\* C17: for IPv6 addresses net and host and a prefix length p in 0..128,
\* replace_ipv6_host_part applied to its own result, with the same host and
\* p, returns that result again.
C17_ReplaceIdempotent ==
    (m_pc = "replace_twice" /\ BothIPv6 /\ m_len \in 0..WIDTH) =>
        /\ ReturnedAddress
        /\ m_res = replace_ipv6_host_part(IPv6Address(m_net), IPv6Address(m_host),
                                          PyInt(m_len))

\* net 2001:db8::1, host ::dead:cafe, /64, twice: 2001:db8::dead:cafe
C17_Witness ==
    /\ m_pc = "replace_twice"
    /\ m_net = <<32, 1, 13, 184, 0, 0, 0, 0, 0, 0, 0, 0, 0, 0, 0, 1>>
    /\ m_host = <<0, 0, 0, 0, 0, 0, 0, 0, 0, 0, 0, 0, 222, 173, 202, 254>>
    /\ m_len = 64
    /\ m_res = Return(IPv6Address(
                  <<32, 1, 13, 184, 0, 0, 0, 0, 0, 0, 0, 0, 222, 173, 202, 254>>))

\* C18: for IPv6 addresses a and b, AND of a and b is AND of b and a, XOR of
\* a with itself is the all-zero address, NOT of NOT of a is a, and AND, OR,
\* XOR and NOT each return an address of 16 bytes.
C18_BitwiseLaws ==
    BothIPv6 =>
        /\ m_pc \in {"and", "or", "xor", "not"} => ReturnedAddress
        /\ m_pc = "and" =>
               m_res = bitwise_and_ipv6(IPv6Address(m_host), IPv6Address(m_net))
        /\ (m_pc = "xor" /\ m_net = m_host) =>
               m_res.val.packed = [k \in 1..16 |-> 0]
        /\ m_pc = "not" =>
               bitwise_not_ipv6(m_res.val) = Return(IPv6Address(m_net))

\* 2001:db8:1:2:a5a5:5a5a:1234:5678 XOR itself: the all-zero address
C18_Witness ==
    /\ m_pc = "xor"
    /\ m_net = <<32, 1, 13, 184, 0, 1, 0, 2, 165, 165, 90, 90, 18, 52, 86, 120>>
    /\ m_host = m_net
    /\ m_res = Return(IPv6Address(<<0, 0, 0, 0, 0, 0, 0, 0, 0, 0, 0, 0, 0, 0, 0, 0>>))

====
